---- MODULE Spec2Model ----
(***************************************************************************)
(* A model of src/main.py: the VarInt and string codecs (PacketUtils), the *)
(* per-connection handshake session (ClientThread) and the accept loop     *)
(* (MCServer).                                                             *)
(*                                                                         *)
(* Three specifications share the definitions:                             *)
(*   CodecSpec   PacketUtils.read_varint / write_varint on a byte source   *)
(*   Spec        one ClientThread on one connection, against a client      *)
(*   ServerSpec  MCServer.start with its ClientThreads                     *)
(***************************************************************************)
EXTENDS Integers, Sequences, FiniteSets, TLC

VARIABLES
    codec,   \* the codec harness: a byte source and one read_varint call
    config,  \* the loaded config.yml (read-only after start-up)
    conn,    \* per connection: the client's side, the socket buffers, close() calls
    sess,    \* per connection: the ClientThread's control point and locals
    apc,     \* MCServer.start: control point of the accept loop
    lsock    \* MCServer.sock: the listening socket

vars == <<codec, config, conn, sess, apc, lsock>>

(***************************************************************************)
(* Python integers are unbounded; read_varint can return up to 42 bits.    *)
(* A number is kept as two limbs, value = hi * 2^21 + lo with lo < 2^21,   *)
(* so that every operation stays inside the model checker's integers.      *)
(***************************************************************************)
Limb == 128 * 128 * 128

Num(n) == [hi |-> n \div Limb, lo |-> n % Limb]

Zero == Num(0)

\* a local that has not been assigned yet
NoNum == [hi |-> -1, lo |-> -1]

\* a | b on naturals
RECURSIVE BitOr(_, _)
BitOr(a, b) ==
    IF a = 0 THEN b
    ELSE IF b = 0 THEN a
    ELSE (IF a % 2 = 1 \/ b % 2 = 1 THEN 1 ELSE 0) + 2 * BitOr(a \div 2, b \div 2)

\* a | b on numbers
NumOr(a, b) == [hi |-> BitOr(a.hi, b.hi), lo |-> BitOr(a.lo, b.lo)]

RECURSIVE Pow128(_)
Pow128(n) == IF n = 0 THEN 1 ELSE 128 * Pow128(n - 1)

\* x << (7 * n), for a 7-bit x
Shl7(x, n) ==
    IF n < 3 THEN [hi |-> 0, lo |-> x * Pow128(n)]
    ELSE [hi |-> x * Pow128(n - 3), lo |-> 0]

\* v >> 7
Shr7(v) == [hi |-> v.hi \div 128, lo |-> (v.lo \div 128) + (v.hi % 128) * 128 * 128]

\* v & 0x7F
Low7(v) == v.lo % 128

\* v < 2^32
Fits32(v) == v.hi >= 0 /\ v.hi < 2 * 2 * 2 * 2 * 128

(***************************************************************************)
(* PacketUtils.write_varint                                                *)
(***************************************************************************)
RECURSIVE write_varint(_)
write_varint(value) ==
    LET temp == Low7(value)
        rest == Shr7(value)
    IN  IF rest # Zero THEN <<temp + 128>> \o write_varint(rest) ELSE <<temp>>

(***************************************************************************)
(* PacketUtils.read_varint: one iteration of the while loop.  byte is what *)
(* sock.recv(1) returned: <<b>>, or << >> at end of stream.                *)
(***************************************************************************)
VarintLimit == 5

read_varint_too_big(num_read) == num_read > VarintLimit

\* read_varint_iter without the "& 0x7F" of line 52
read_varint_iter_nomask(result, num_read, byte) ==
    IF byte = << >>
    THEN [st |-> "return", result |-> result, num_read |-> num_read]
    ELSE LET value == byte[1]
             r == NumOr(result, Shl7(value, num_read))
             n == num_read + 1
         IN  IF value \div 128 = 0
             THEN [st |-> "return", result |-> r, num_read |-> n]
             ELSE IF read_varint_too_big(n)
             THEN [st |-> "raise", result |-> r, num_read |-> n]
             ELSE [st |-> "loop", result |-> r, num_read |-> n]

read_varint_iter(result, num_read, byte) ==
    IF byte = << >>
    THEN [st |-> "return", result |-> result, num_read |-> num_read]
    ELSE LET value == byte[1]
             r == NumOr(result, Shl7(value % 128, num_read))
             n == num_read + 1
         IN  IF value \div 128 = 0
             THEN [st |-> "return", result |-> r, num_read |-> n]
             ELSE IF read_varint_too_big(n)
             THEN [st |-> "raise", result |-> r, num_read |-> n]
             ELSE [st |-> "loop", result |-> r, num_read |-> n]

\* read_varint on a source that has wholly arrived and is then at end of stream:
\* [st, result, rest]
RECURSIVE read_varint_run(_, _, _)
read_varint_run(result, num_read, src) ==
    LET it == read_varint_iter(result, num_read, SubSeq(src, 1, IF src = << >> THEN 0 ELSE 1))
        rest == IF src = << >> THEN << >> ELSE Tail(src)
    IN  IF it.st = "loop" THEN read_varint_run(it.result, it.num_read, rest)
        ELSE [st |-> it.st, result |-> it.result, rest |-> rest]

read_varint(src) == read_varint_run(Zero, 0, src)

\* sock.recv(n) on a receive buffer: up to n bytes of what has arrived
Take(buf, n) == IF n.hi > 0 \/ n.lo > Len(buf) THEN Len(buf) ELSE n.lo

RecvBytes(buf, n) == SubSeq(buf, 1, Take(buf, n))

RecvRest(buf, n) == SubSeq(buf, Take(buf, n) + 1, Len(buf))

(***************************************************************************)
(* Python values.  A str is a sequence of code points, bytes a sequence of *)
(* 0..255; a config or JSON value is tagged with its type.                 *)
(***************************************************************************)
PyStr(s) == [t |-> "str", s |-> s]

PyInt(n) == [t |-> "int", n |-> n]

PyNone == [t |-> "none"]

PyDict(items) == [t |-> "dict", items |-> items]

Item(k, v) == [k |-> k, v |-> v]

\* a str local that has not been assigned yet
NoStr == <<-1>>

\* bytes.decode("utf-8"), strict: [ok, s]
Cont(b) == b >= 128 /\ b <= 191

RECURSIVE utf8_decode(_)
utf8_decode(data) ==
    IF data = << >> THEN [ok |-> TRUE, s |-> << >>]
    ELSE
      LET b0 == data[1]
          n  == Len(data)
          width ==
            IF b0 < 128 THEN 1
            ELSE IF b0 >= 194 /\ b0 <= 223 /\ n >= 2 /\ Cont(data[2]) THEN 2
            ELSE IF b0 >= 224 /\ b0 <= 239 /\ n >= 3 /\ Cont(data[2]) /\ Cont(data[3])
                    /\ (b0 = 224 => data[2] >= 160) /\ (b0 = 237 => data[2] <= 159) THEN 3
            ELSE IF b0 >= 240 /\ b0 <= 244 /\ n >= 4 /\ Cont(data[2]) /\ Cont(data[3])
                    /\ Cont(data[4])
                    /\ (b0 = 240 => data[2] >= 144) /\ (b0 = 244 => data[2] <= 143) THEN 4
            ELSE 0
          cp ==
            IF width = 1 THEN b0
            ELSE IF width = 2 THEN (b0 - 192) * 64 + (data[2] - 128)
            ELSE IF width = 3 THEN (b0 - 224) * 4096 + (data[2] - 128) * 64 + (data[3] - 128)
            ELSE (b0 - 240) * 262144 + (data[2] - 128) * 4096 + (data[3] - 128) * 64
                 + (data[4] - 128)
      IN  IF width = 0 THEN [ok |-> FALSE, s |-> << >>]
          ELSE LET rest == utf8_decode(SubSeq(data, width + 1, n))
               IN  [ok |-> rest.ok, s |-> IF rest.ok THEN <<cp>> \o rest.s ELSE << >>]

\* the concatenation of a sequence of sequences
RECURSIVE Join(_)
Join(parts) ==
    IF Len(parts) = 0 THEN << >>
    ELSE IF Len(parts) = 1 THEN parts[1]
    ELSE LET h == Len(parts) \div 2
         IN  Join(SubSeq(parts, 1, h)) \o Join(SubSeq(parts, h + 1, Len(parts)))

\* the UTF-8 bytes of one code point
utf8_encode_char(cp) ==
    IF cp < 128 THEN <<cp>>
    ELSE IF cp < 2048 THEN <<192 + (cp \div 64), 128 + (cp % 64)>>
    ELSE IF cp < 65536
         THEN <<224 + (cp \div 4096), 128 + ((cp \div 64) % 64), 128 + (cp % 64)>>
    ELSE <<240 + (cp \div 262144), 128 + ((cp \div 4096) % 64),
           128 + ((cp \div 64) % 64), 128 + (cp % 64)>>

\* str.encode("utf-8"), for a str without surrogates
utf8_encode(s) == Join([i \in 1..Len(s) |-> utf8_encode_char(s[i])])

(***************************************************************************)
(* PacketUtils.write_utf                                                   *)
(***************************************************************************)
write_utf(string) ==
    LET data == utf8_encode(string)
    IN  write_varint(Num(Len(data))) \o data

\* struct.pack(">H", port)
pack_H(port) == <<port \div 256, port % 256>>

\* struct.unpack(">H", data)[0]: [ok, v]; struct.error unless exactly 2 bytes
unpack_H(data) ==
    IF Len(data) = 2 THEN [ok |-> TRUE, v |-> data[1] * 256 + data[2]]
    ELSE [ok |-> FALSE, v |-> -1]

(***************************************************************************)
(* json.dumps with its defaults (ensure_ascii, separators ", " and ": ")   *)
(***************************************************************************)
HexDigits == <<48, 49, 50, 51, 52, 53, 54, 55, 56, 57, 97, 98, 99, 100, 101, 102>>

Hex4(n) ==
    <<HexDigits[((n \div 4096) % 16) + 1], HexDigits[((n \div 256) % 16) + 1],
      HexDigits[((n \div 16) % 16) + 1], HexDigits[(n % 16) + 1]>>

JsonEscape(cp) ==
    IF cp = 34 THEN <<92, 34>>
    ELSE IF cp = 92 THEN <<92, 92>>
    ELSE IF cp = 10 THEN <<92, 110>>
    ELSE IF cp = 13 THEN <<92, 114>>
    ELSE IF cp = 9 THEN <<92, 116>>
    ELSE IF cp = 8 THEN <<92, 98>>
    ELSE IF cp = 12 THEN <<92, 102>>
    ELSE IF cp >= 32 /\ cp <= 126 THEN <<cp>>
    ELSE IF cp < 65536 THEN <<92, 117>> \o Hex4(cp)
    ELSE <<92, 117>> \o Hex4(55296 + ((cp - 65536) \div 1024))
         \o <<92, 117>> \o Hex4(56320 + ((cp - 65536) % 1024))

JsonChars(s) == Join([i \in 1..Len(s) |-> JsonEscape(s[i])])

RECURSIVE Decimal(_)
Decimal(n) ==
    IF n < 0 THEN <<45>> \o Decimal(-n)
    ELSE IF n < 10 THEN <<48 + n>>
    ELSE Decimal(n \div 10) \o <<48 + (n % 10)>>

RECURSIVE json_dumps(_)
RECURSIVE JsonItems(_)
json_dumps(obj) ==
    IF obj.t = "str" THEN <<34>> \o JsonChars(obj.s) \o <<34>>
    ELSE IF obj.t = "int" THEN Decimal(obj.n)
    ELSE IF obj.t = "none" THEN <<110, 117, 108, 108>>
    ELSE <<123>> \o JsonItems(obj.items) \o <<125>>

JsonItems(items) ==
    IF items = << >> THEN << >>
    ELSE <<34>> \o JsonChars(items[1].k) \o <<34, 58, 32>> \o json_dumps(items[1].v)
         \o (IF Len(items) > 1 THEN <<44, 32>> \o JsonItems(Tail(items)) ELSE << >>)

(***************************************************************************)
(* base64.b64encode                                                        *)
(***************************************************************************)
B64Alphabet ==
    <<65, 66, 67, 68, 69, 70, 71, 72, 73, 74, 75, 76, 77, 78, 79, 80, 81, 82, 83, 84,
      85, 86, 87, 88, 89, 90, 97, 98, 99, 100, 101, 102, 103, 104, 105, 106, 107, 108,
      109, 110, 111, 112, 113, 114, 115, 116, 117, 118, 119, 120, 121, 122, 48, 49, 50,
      51, 52, 53, 54, 55, 56, 57, 43, 47>>

\* the four characters for the group of up to three bytes that starts at data[i]
b64group(data, i) ==
    LET n  == Len(data)
        b1 == data[i]
        b2 == IF n >= i + 1 THEN data[i + 1] ELSE 0
        b3 == IF n >= i + 2 THEN data[i + 2] ELSE 0
        c1 == B64Alphabet[(b1 \div 4) + 1]
        c2 == B64Alphabet[((b1 % 4) * 16) + (b2 \div 16) + 1]
        c3 == IF n >= i + 1 THEN B64Alphabet[((b2 % 16) * 4) + (b3 \div 64) + 1] ELSE 61
        c4 == IF n >= i + 2 THEN B64Alphabet[(b3 % 64) + 1] ELSE 61
    IN  <<c1, c2, c3, c4>>

b64encode(data) ==
    Join([g \in 1..((Len(data) + 2) \div 3) |-> b64group(data, (3 * (g - 1)) + 1)])


(***************************************************************************)
(* Connections and sessions                                                *)
(***************************************************************************)
MaxSessions == 2

SessionIds == 1 .. MaxSessions

\* the peer address accept() returns for connection c: ("10.0.0.<c>", 40000 + c)
PeerAddr(c) == [ip |-> <<49, 48, 46, 48, 46, 48, 46, 48 + c>>, port |-> 40000 + c]

\* cstate: "none" not connected, "open", "fin" the client has closed its side,
\*         "rst" the connection is reset
\* script: the bytes the client means to send, at most chunk per segment
\* sent:   how many of them it has sent
\* inbuf:  bytes that have arrived and are not yet received
\* wire:   what each successful sendall wrote
\* closed: calls of conn.close()
NoConn ==
    [cstate |-> "none", script |-> << >>, chunk |-> 0, sent |-> 0, inbuf |-> << >>,
     wire |-> << >>, closed |-> 0]

Unknown == <<85, 110, 107, 110, 111, 119, 110>>

\* a ClientThread that is not constructed yet
NoSess ==
    [pc |-> "unborn", addr |-> PeerAddr(0), result |-> Zero, num_read |-> 0,
     length |-> NoNum, packet_id |-> NoNum, protocol_version |-> NoNum,
     utf_length |-> NoNum, server_address |-> NoStr, server_port |-> -1,
     next_state |-> NoNum, username_length |-> NoNum, username |-> NoStr,
     username_display |-> NoStr, ping_payload |-> <<-1>>,
     user_err |-> "", err |-> ""]

\* ClientThread.__init__ and start(): run is about to read the packet length
ClientThread(c) == [NoSess EXCEPT !.pc = "rd_length", !.addr = PeerAddr(c)]

\* sock.recv(n) blocks while nothing has arrived on an open connection;
\* recv(0) returns at once
RecvReady(cn, n) == n = Zero \/ cn.inbuf # << >> \/ cn.cstate \in {"fin", "rst"}

\* ConnectionResetError
RecvRaises(cn, n) == n # Zero /\ cn.inbuf = << >> /\ cn.cstate = "rst"

\* send_packet whose length prefix counts the payload without the packet ID
send_packet_lenpayload(packet_id, data_bytes) ==
    LET packet == write_varint(Num(packet_id)) \o data_bytes
        length == write_varint(Num(Len(data_bytes)))
    IN  length \o packet

(***************************************************************************)
(* ClientThread.send_packet: the bytes handed to sendall                   *)
(***************************************************************************)
send_packet(packet_id, data_bytes) ==
    LET packet == write_varint(Num(packet_id)) \o data_bytes
        length == write_varint(Num(Len(packet)))
    IN  length \o packet

(***************************************************************************)
(* ClientThread.run                                                        *)
(***************************************************************************)
\* Dispatch with "else" in place of "elif next_state == 2"
Dispatch_else(s) ==
    [s EXCEPT !.username_display = IF s.username # << >> THEN s.username ELSE s.addr.ip,
              !.pc = IF s.next_state = Num(1) THEN "send_status" ELSE "send_kick",
              !.result = Zero, !.num_read = 0]

\* lines 110-112, 127: the display name, then the branch on next_state
Dispatch(s) ==
    [s EXCEPT !.username_display = IF s.username # << >> THEN s.username ELSE s.addr.ip,
              !.pc = IF s.next_state = Num(1) THEN "send_status"
                     ELSE IF s.next_state = Num(2) THEN "send_kick"
                     ELSE "finally",
              !.result = Zero, !.num_read = 0]

\* OnException without the finally clause: a logged exception ends run
OnException_nofinally(s, kind) ==
    IF s.pc \in {"rd_user_len", "rd_user"}
    THEN Dispatch([s EXCEPT !.user_err = kind])
    ELSE [s EXCEPT !.pc = "done", !.err = kind, !.result = Zero, !.num_read = 0]

\* an exception raised at s.pc: the bare except of lines 108-109 swallows it
\* around the username, "except Exception" of line 132 logs it anywhere else
OnException(s, kind) ==
    IF s.pc \in {"rd_user_len", "rd_user"}
    THEN Dispatch([s EXCEPT !.user_err = kind])
    ELSE [s EXCEPT !.pc = "finally", !.err = kind, !.result = Zero, !.num_read = 0]

VarintSites == {"rd_length", "rd_pid", "rd_pv", "rd_addr_len", "rd_ns", "rd_user_len"}

\* AfterVarint without the test of line 99
AfterVarint_anypid(s, v) ==
    LET r == [s EXCEPT !.result = Zero, !.num_read = 0]
    IN  CASE s.pc = "rd_length" -> [r EXCEPT !.length = v, !.pc = "rd_pid"]
          [] s.pc = "rd_pid" -> [r EXCEPT !.packet_id = v, !.pc = "rd_pv"]
          [] s.pc = "rd_pv" -> [r EXCEPT !.protocol_version = v, !.pc = "rd_addr_len"]
          [] s.pc = "rd_addr_len" -> [r EXCEPT !.utf_length = v, !.pc = "rd_addr"]
          [] s.pc = "rd_ns" ->
               [r EXCEPT !.next_state = v, !.username = Unknown, !.pc = "rd_user_len"]
          [] s.pc = "rd_user_len" -> [r EXCEPT !.username_length = v, !.pc = "rd_user"]

\* read_varint returned v to the call at s.pc
AfterVarint(s, v) ==
    LET r == [s EXCEPT !.result = Zero, !.num_read = 0]
    IN  CASE s.pc = "rd_length" -> [r EXCEPT !.length = v, !.pc = "rd_pid"]
          [] s.pc = "rd_pid" ->
               [r EXCEPT !.packet_id = v, !.pc = IF v = Zero THEN "rd_pv" ELSE "finally"]
          [] s.pc = "rd_pv" -> [r EXCEPT !.protocol_version = v, !.pc = "rd_addr_len"]
          [] s.pc = "rd_addr_len" -> [r EXCEPT !.utf_length = v, !.pc = "rd_addr"]
          [] s.pc = "rd_ns" ->
               [r EXCEPT !.next_state = v, !.username = Unknown, !.pc = "rd_user_len"]
          [] s.pc = "rd_user_len" -> [r EXCEPT !.username_length = v, !.pc = "rd_user"]

\* one sock.recv(1) of read_varint and the rest of that loop iteration
ReadVarint(c) ==
    /\ sess[c].pc \in VarintSites
    /\ RecvReady(conn[c], Num(1))
    /\ IF RecvRaises(conn[c], Num(1))
       THEN /\ sess' = [sess EXCEPT ![c] = OnException(@, "ConnectionResetError")]
            /\ UNCHANGED conn
       ELSE LET byte == RecvBytes(conn[c].inbuf, Num(1))
                it == read_varint_iter(sess[c].result, sess[c].num_read, byte)
            IN  /\ conn' = [conn EXCEPT ![c].inbuf = RecvRest(@, Num(1))]
                /\ sess' = [sess EXCEPT ![c] =
                              IF it.st = "loop"
                              THEN [@ EXCEPT !.result = it.result, !.num_read = it.num_read]
                              ELSE IF it.st = "return" THEN AfterVarint(@, it.result)
                              ELSE OnException(@, "VarIntTooBig")]
    /\ UNCHANGED <<codec, config, apc, lsock>>

\* read_utf, line 76: sock.recv(length).decode("utf-8") for server_address
ReadAddress(c) ==
    /\ sess[c].pc = "rd_addr"
    /\ RecvReady(conn[c], sess[c].utf_length)
    /\ IF RecvRaises(conn[c], sess[c].utf_length)
       THEN /\ sess' = [sess EXCEPT ![c] = OnException(@, "ConnectionResetError")]
            /\ UNCHANGED conn
       ELSE LET dec == utf8_decode(RecvBytes(conn[c].inbuf, sess[c].utf_length))
            IN  /\ conn' = [conn EXCEPT ![c].inbuf = RecvRest(@, sess[c].utf_length)]
                /\ sess' = [sess EXCEPT ![c] =
                              IF dec.ok
                              THEN [@ EXCEPT !.server_address = dec.s, !.pc = "rd_port"]
                              ELSE OnException(@, "UnicodeDecodeError")]
    /\ UNCHANGED <<codec, config, apc, lsock>>

\* line 102: struct.unpack(">H", self.conn.recv(2))[0]
ReadPort(c) ==
    /\ sess[c].pc = "rd_port"
    /\ RecvReady(conn[c], Num(2))
    /\ IF RecvRaises(conn[c], Num(2))
       THEN /\ sess' = [sess EXCEPT ![c] = OnException(@, "ConnectionResetError")]
            /\ UNCHANGED conn
       ELSE LET port == unpack_H(RecvBytes(conn[c].inbuf, Num(2)))
            IN  /\ conn' = [conn EXCEPT ![c].inbuf = RecvRest(@, Num(2))]
                /\ sess' = [sess EXCEPT ![c] =
                              IF port.ok
                              THEN [@ EXCEPT !.server_port = port.v, !.pc = "rd_ns"]
                              ELSE OnException(@, "struct.error")]
    /\ UNCHANGED <<codec, config, apc, lsock>>

\* line 107: self.conn.recv(username_length).decode("utf-8"), inside the inner try
ReadUsername(c) ==
    /\ sess[c].pc = "rd_user"
    /\ RecvReady(conn[c], sess[c].username_length)
    /\ IF RecvRaises(conn[c], sess[c].username_length)
       THEN /\ sess' = [sess EXCEPT ![c] = OnException(@, "ConnectionResetError")]
            /\ UNCHANGED conn
       ELSE LET dec == utf8_decode(RecvBytes(conn[c].inbuf, sess[c].username_length))
            IN  /\ conn' = [conn EXCEPT ![c].inbuf = RecvRest(@, sess[c].username_length)]
                /\ sess' = [sess EXCEPT ![c] =
                              IF dec.ok THEN Dispatch([@ EXCEPT !.username = dec.s])
                              ELSE OnException(@, "UnicodeDecodeError")]
    /\ UNCHANGED <<codec, config, apc, lsock>>


\* StatusDict that answers with the protocol number the client declared
StatusDict_echo(cfg, favicon) ==
    LET c == CHOOSE d \in SessionIds : sess[d].pc = "send_status"
    IN  PyDict(<<Item(<<118, 101, 114, 115, 105, 111, 110>>,
                      PyDict(<<Item(<<110, 97, 109, 101>>, cfg.version_text),
                               Item(<<112, 114, 111, 116, 111, 99, 111, 108>>,
                                    PyInt(sess[c].protocol_version.lo))>>)),
                 Item(<<112, 108, 97, 121, 101, 114, 115>>,
                      PyDict(<<Item(<<109, 97, 120>>, cfg.max_players),
                               Item(<<111, 110, 108, 105, 110, 101>>, cfg.online_players)>>)),
                 Item(<<100, 101, 115, 99, 114, 105, 112, 116, 105, 111, 110>>,
                      PyDict(<<Item(<<116, 101, 120, 116>>, cfg.motd)>>))>>
               \o (IF favicon = << >> THEN << >>
                   ELSE <<Item(<<102, 97, 118, 105, 99, 111, 110>>, PyStr(favicon))>>))

\* lines 113-117 and 122: the status dict; favicon is << >> when the key is not set
StatusDict(cfg, favicon) ==
    PyDict(<<Item(<<118, 101, 114, 115, 105, 111, 110>>,
                  PyDict(<<Item(<<110, 97, 109, 101>>, cfg.version_text),
                           Item(<<112, 114, 111, 116, 111, 99, 111, 108>>, PyInt(-1))>>)),
             Item(<<112, 108, 97, 121, 101, 114, 115>>,
                  PyDict(<<Item(<<109, 97, 120>>, cfg.max_players),
                           Item(<<111, 110, 108, 105, 110, 101>>, cfg.online_players)>>)),
             Item(<<100, 101, 115, 99, 114, 105, 112, 116, 105, 111, 110>>,
                  PyDict(<<Item(<<116, 101, 120, 116>>, cfg.motd)>>))>>
           \o (IF favicon = << >> THEN << >>
               ELSE <<Item(<<102, 97, 118, 105, 99, 111, 110>>, PyStr(favicon))>>))

\* line 122: f"data:image/png;base64,{icon_b64}"
FaviconUri(icon_bytes) ==
    <<100, 97, 116, 97, 58, 105, 109, 97, 103, 101, 47, 112, 110, 103, 59, 98, 97, 115,
      101, 54, 52, 44>> \o b64encode(icon_bytes)

\* the content of the icon file, where there is a readable one
IconBytes == <<137, 80>>

\* Python truth of a config value used as a condition (line 119)
Truthy(v) == v.t = "str" /\ v.s # << >>

\* what the file system answers at lines 119-121: os.path.exists is False
\* ("absent"); the file is read ("read"); open or read raises OSError ("error")
IconOutcomes(cfg) ==
    IF Truthy(cfg.server_icon) THEN {"absent", "read", "error"} ELSE {"unset"}

\* socket.sendall on a connection: raises once the connection is reset
SendRaises(cn) == cn.cstate = "rst"

\* lines 113-123: build the status, read the icon, send packet 0
SendStatus(c) ==
    /\ sess[c].pc = "send_status"
    /\ \E icon \in IconOutcomes(config) :
         IF icon = "error"
         THEN /\ sess' = [sess EXCEPT ![c] = OnException(@, "OSError")]
              /\ UNCHANGED conn
         ELSE IF SendRaises(conn[c])
         THEN /\ sess' = [sess EXCEPT ![c] = OnException(@, "BrokenPipeError")]
              /\ UNCHANGED conn
         ELSE LET favicon == IF icon = "read" THEN FaviconUri(IconBytes) ELSE << >>
                  text == json_dumps(StatusDict(config, favicon))
              IN  /\ conn' = [conn EXCEPT ![c].wire =
                                Append(@, send_packet(0, write_utf(text)))]
                  /\ sess' = [sess EXCEPT ![c].pc = "rd_ping"]
    /\ UNCHANGED <<codec, config, apc, lsock>>

\* line 124: ping_payload = self.conn.recv(8)
ReadPing(c) ==
    /\ sess[c].pc = "rd_ping"
    /\ RecvReady(conn[c], Num(8))
    /\ IF RecvRaises(conn[c], Num(8))
       THEN /\ sess' = [sess EXCEPT ![c] = OnException(@, "ConnectionResetError")]
            /\ UNCHANGED conn
       ELSE /\ conn' = [conn EXCEPT ![c].inbuf = RecvRest(@, Num(8))]
            /\ sess' = [sess EXCEPT ![c].ping_payload = RecvBytes(conn[c].inbuf, Num(8)),
                                    ![c].pc = "send_pong"]
    /\ UNCHANGED <<codec, config, apc, lsock>>

\* lines 125-126: send_packet(1, ping_payload)
SendPong(c) ==
    /\ sess[c].pc = "send_pong"
    /\ IF SendRaises(conn[c])
       THEN /\ sess' = [sess EXCEPT ![c] = OnException(@, "BrokenPipeError")]
            /\ UNCHANGED conn
       ELSE /\ conn' = [conn EXCEPT ![c].wire =
                          Append(@, send_packet(1, sess[c].ping_payload))]
            /\ sess' = [sess EXCEPT ![c].pc = "finally"]
    /\ UNCHANGED <<codec, config, apc, lsock>>

\* line 131: kick_msg_text.splitlines()[0] raises AttributeError on None and
\* IndexError on "" (no lines)
KickLogError(kick) ==
    IF kick.t # "str" THEN "AttributeError"
    ELSE IF kick.s = << >> THEN "IndexError"
    ELSE ""

\* SendKick with line 131 (the log) before line 130 (the send)
SendKick_logfirst(c) ==
    /\ sess[c].pc = "send_kick"
    /\ IF KickLogError(config.kick_message) # ""
       THEN /\ sess' = [sess EXCEPT ![c] = OnException(@, KickLogError(config.kick_message))]
            /\ UNCHANGED conn
       ELSE IF SendRaises(conn[c])
       THEN /\ sess' = [sess EXCEPT ![c] = OnException(@, "BrokenPipeError")]
            /\ UNCHANGED conn
       ELSE LET kick_json == json_dumps(PyDict(<<Item(<<116, 101, 120, 116>>,
                                                      config.kick_message)>>))
            IN  /\ conn' = [conn EXCEPT ![c].wire =
                              Append(@, send_packet(0, write_utf(kick_json)))]
                /\ sess' = [sess EXCEPT ![c].pc = "finally"]
    /\ UNCHANGED <<codec, config, apc, lsock>>

\* lines 128-131: send the kick as packet 0, then log its first line
SendKick(c) ==
    /\ sess[c].pc = "send_kick"
    /\ IF SendRaises(conn[c])
       THEN /\ sess' = [sess EXCEPT ![c] = OnException(@, "BrokenPipeError")]
            /\ UNCHANGED conn
       ELSE LET kick_json == json_dumps(PyDict(<<Item(<<116, 101, 120, 116>>,
                                                      config.kick_message)>>))
            IN  /\ conn' = [conn EXCEPT ![c].wire =
                              Append(@, send_packet(0, write_utf(kick_json)))]
                /\ sess' = [sess EXCEPT ![c].pc = "finally",
                                        ![c].err = KickLogError(config.kick_message)]
    /\ UNCHANGED <<codec, config, apc, lsock>>

\* CloseConn where a session that caught an exception takes the process down
CloseConn_exit(c) ==
    /\ sess[c].pc = "finally"
    /\ conn' = [conn EXCEPT ![c].closed = @ + 1]
    /\ sess' = [sess EXCEPT ![c].pc = "done"]
    /\ IF sess[c].err # "" THEN apc' = "stopped" /\ lsock' = "closed"
       ELSE UNCHANGED <<apc, lsock>>
    /\ UNCHANGED <<codec, config>>

\* lines 134-135: finally: self.conn.close(); run returns
CloseConn(c) ==
    /\ sess[c].pc = "finally"
    /\ conn' = [conn EXCEPT ![c].closed = @ + 1]
    /\ sess' = [sess EXCEPT ![c].pc = "done"]
    /\ UNCHANGED <<codec, config, apc, lsock>>

SessionStep(c) ==
    \/ ReadVarint(c)
    \/ ReadAddress(c)
    \/ ReadPort(c)
    \/ ReadUsername(c)
    \/ SendStatus(c)
    \/ ReadPing(c)
    \/ SendPong(c)
    \/ SendKick(c)
    \/ CloseConn(c)

(***************************************************************************)
(* The client of a connection                                              *)
(***************************************************************************)
\* the next segment of the script arrives
ClientSend(c) ==
    /\ conn[c].cstate = "open"
    /\ conn[c].closed = 0
    /\ conn[c].sent < Len(conn[c].script)
    /\ LET left == Len(conn[c].script) - conn[c].sent
           k == IF conn[c].chunk < left THEN conn[c].chunk ELSE left
       IN  conn' = [conn EXCEPT
                     ![c].inbuf = @ \o SubSeq(conn[c].script, conn[c].sent + 1,
                                              conn[c].sent + k),
                     ![c].sent = @ + k]
    /\ UNCHANGED <<codec, config, sess, apc, lsock>>

\* the client closes its side: end of stream after what has arrived
ClientClose(c) ==
    /\ conn[c].cstate = "open"
    /\ conn[c].closed = 0
    /\ conn' = [conn EXCEPT ![c].cstate = "fin"]
    /\ UNCHANGED <<codec, config, sess, apc, lsock>>

\* the connection is reset; unread bytes are kept or lost
ClientReset(c) ==
    /\ conn[c].cstate \in {"open", "fin"}
    /\ conn[c].closed = 0
    /\ \E lose \in BOOLEAN :
         conn' = [conn EXCEPT ![c].cstate = "rst",
                              ![c].inbuf = IF lose THEN << >> ELSE @]
    /\ UNCHANGED <<codec, config, sess, apc, lsock>>

ClientStep(c) == ClientSend(c) \/ ClientClose(c) \/ ClientReset(c)


(***************************************************************************)
(* The codec harness: a byte source that is wholly delivered and then at   *)
(* end of stream, and one call of read_varint on it.  The source is either *)
(* write_varint(value) followed by other bytes, or raw bytes.              *)
(***************************************************************************)
MaxRawLen == 7

RawBytes == {1, 128, 255}

RECURSIVE SeqsUpTo(_, _)
SeqsUpTo(S, n) ==
    IF n = 0 THEN {<< >>}
    ELSE LET shorter == SeqsUpTo(S, n - 1)
         IN  shorter \cup {<<b>> \o s : b \in S, s \in {t \in shorter : Len(t) = n - 1}}

RawSources == SeqsUpTo(RawBytes, MaxRawLen)

\* values of [0, 2^32) around every encoded length, 1 to 5 bytes
RoundTripValues ==
    {[hi |-> h, lo |-> l] : h \in {0, 1, 127, 128, 2047},
                            l \in {0, 1, 127, 128, 16383, 16384, Limb - 1}}

CodecTails == {<< >>, <<0>>, <<128, 1>>, <<255, 255>>}

CodecIdle ==
    [stage |-> "idle", value |-> NoNum, tail |-> << >>, given |-> << >>,
     src |-> << >>, result |-> Zero, num_read |-> 0]

CodecInitStates ==
    {[CodecIdle EXCEPT !.stage = "encode", !.value = v, !.tail = t] :
        v \in RoundTripValues, t \in CodecTails}
    \cup {[CodecIdle EXCEPT !.stage = "decode", !.given = s, !.src = s] : s \in RawSources}

\* the harness writes write_varint(value) and the tail to the source
CodecEncode ==
    /\ codec.stage = "encode"
    /\ LET bytes == write_varint(codec.value) \o codec.tail
       IN  codec' = [codec EXCEPT !.stage = "decode", !.given = bytes, !.src = bytes]
    /\ UNCHANGED <<config, conn, sess, apc, lsock>>

\* one iteration of read_varint on the source
CodecDecodeStep ==
    /\ codec.stage = "decode"
    /\ LET byte == RecvBytes(codec.src, Num(1))
           it == read_varint_iter(codec.result, codec.num_read, byte)
       IN  codec' = [codec EXCEPT
                       !.stage = IF it.st = "loop" THEN "decode" ELSE it.st,
                       !.src = RecvRest(codec.src, Num(1)),
                       !.result = it.result,
                       !.num_read = it.num_read]
    /\ UNCHANGED <<config, conn, sess, apc, lsock>>

(***************************************************************************)
(* Configurations (config.yml) and client plans                            *)
(***************************************************************************)
\* version_text "F", motd "\xa7a\n", kick_message "No\nGo\n", no icon
DefaultConfig ==
    [version_text |-> PyStr(<<70>>), max_players |-> PyInt(10),
     online_players |-> PyInt(0), motd |-> PyStr(<<167, 97, 10>>),
     kick_message |-> PyStr(<<78, 111, 10, 71, 111, 10>>), server_icon |-> PyStr(<< >>)]

\* server_icon: "i"
IconConfig == [DefaultConfig EXCEPT !.server_icon = PyStr(<<105>>)]

Configs ==
    {DefaultConfig, IconConfig,
     [IconConfig EXCEPT !.kick_message = PyStr(<< >>)],
     [DefaultConfig EXCEPT !.kick_message = PyNone]}

\* the client's handshake packet, as section 6 of the protocol lays it out
Handshake(pid, pv, address, port, ns) ==
    LET body == write_varint(pid) \o write_varint(pv) \o write_utf(address)
                \o pack_H(port) \o write_varint(ns)
    IN  write_varint(Num(Len(body))) \o body

Ping8 == <<8, 7, 6, 5, 4, 3, 2, 1>>

\* what a client may send after next_state
Tails ==
    {<< >>,                                  \* nothing
     <<1, 0, 9, 1>> \o Ping8,                \* status request packet, ping packet
     <<4, 0>> \o write_utf(<<65, 108>>),     \* login start packet, name "Al"
     write_utf(<<65, 108>>),                 \* a bare username "Al"
     write_utf(<<65, 108>>) \o Ping8,        \* a bare username, then 8 ping bytes
     <<0>> \o Ping8,                         \* an empty username, then 8 ping bytes
     Ping8,                                  \* 8 ping bytes at once
     <<128, 128, 128, 128, 128, 128>>,       \* username length: 6 continuation bytes
     <<128, 128, 128, 128, 128, 1, 65>>,     \* username length: 6 bytes, 2^35
     <<5, 65>>,                              \* username shorter than declared
     <<1, 255>>}                             \* username that is not UTF-8

PlanBytes ==
    {Handshake(Zero, Num(758), <<97>>, 25565, Num(ns)) \o tl : ns \in {1, 2}, tl \in Tails}
    \cup {Handshake(Zero, Num(758), <<97>>, 25565, Num(ns)) \o tl :
            ns \in {0, 3, 129}, tl \in {<< >>, write_utf(<<65, 108>>)}}
    \cup {Handshake(Num(pid), Num(758), <<97>>, 25565, Num(1)) : pid \in {1, 128}}
    \cup {Handshake(Zero, [hi |-> 2047, lo |-> 5], <<233, 8364>>, 80, Num(1))
            \o <<1, 0, 9, 1>> \o Ping8,
          Handshake(Zero, Zero, << >>, 0, Num(2)) \o <<0>>,
          Handshake(Zero, Num(758), <<97, 98>>, 25565, Num(1)) \o <<0>> \o Ping8,
          <<128, 128, 128, 128, 128, 128, 0>>,
          <<7, 0, 0, 2, 195, 40, 99, 221, 1>>,
          <<7, 0, 128, 128, 128, 128, 128, 128, 0>>}

\* a client sends its bytes one at a time, or all in one segment
Plans == {[bytes |-> b, chunk |-> 1] : b \in PlanBytes}
         \cup {[bytes |-> b, chunk |-> Len(b)] : b \in PlanBytes}

\* the scripts of the clients of ServerSpec, each sent in one segment: a status
\* exchange, a login, a handshake the client waits after, a packet with ID 1,
\* a packet length of six continuation bytes
ShortHandshake(ns) == Handshake(Zero, Zero, << >>, 0, Num(ns))

ServerPlanBytes ==
    {ShortHandshake(1) \o <<0>> \o Ping8,
     ShortHandshake(2) \o write_utf(<<65>>),
     ShortHandshake(1),
     <<1, 1>>,
     <<128, 128, 128, 128, 128, 128>>}

ServerPlans == {[bytes |-> b, chunk |-> Len(b)] : b \in ServerPlanBytes}

Connected(plan) ==
    [NoConn EXCEPT !.cstate = "open", !.script = plan.bytes, !.chunk = plan.chunk]

(***************************************************************************)
(* Spec: one ClientThread, constructed for connection 1 and started        *)
(***************************************************************************)
Init ==
    /\ codec = CodecIdle
    /\ config \in Configs
    /\ \E plan \in Plans :
         conn = [c \in SessionIds |-> IF c = 1 THEN Connected(plan) ELSE NoConn]
    /\ sess = [c \in SessionIds |-> IF c = 1 THEN ClientThread(c) ELSE NoSess]
    /\ apc = "accept"
    /\ lsock = "listening"

Next == \E c \in SessionIds : SessionStep(c) \/ ClientStep(c)

Spec == Init /\ [][Next]_vars

(***************************************************************************)
(* CodecSpec: the codec harness alone                                      *)
(***************************************************************************)
CodecInit ==
    /\ codec \in CodecInitStates
    /\ config = DefaultConfig
    /\ conn = [c \in SessionIds |-> NoConn]
    /\ sess = [c \in SessionIds |-> NoSess]
    /\ apc = "init"
    /\ lsock = "created"

CodecNext == CodecEncode \/ CodecDecodeStep

CodecSpec == CodecInit /\ [][CodecNext]_vars

(***************************************************************************)
(* MCServer.start: the acceptor.  Connections get the numbers 1, 2, ... in *)
(* the order in which clients connect; accept() returns them in that order.*)
(* apc: "init" before bind, "accept" in sock.accept(), "start" between     *)
(*      accept() and ClientThread(...).start(); after the finally clause   *)
(*      "stopped" when the loop was left by KeyboardInterrupt (line 157)   *)
(*      and "failed" when it was left by an exception (line 159); "exit"   *)
(*      after sys.exit(1)                                                  *)
(* lsock: "created", "listening", "closed"                                 *)
(***************************************************************************)
\* connections that are established and not yet handed to a ClientThread
Backlog == {c \in SessionIds : conn[c].cstate # "none" /\ sess[c].pc = "unborn"}

\* the connection accept() returns next, and the one it has just returned
Oldest == CHOOSE c \in Backlog : \A d \in Backlog : c <= d

\* the next connection number
Unused == {c \in SessionIds : conn[c].cstate = "none"}

\* an acceptor that comes back to accept() only when every session has ended
AcceptReady_serial ==
    /\ apc = "accept" /\ lsock = "listening"
    /\ \A d \in SessionIds : sess[d].pc \in {"unborn", "done"}

\* line 154: the main thread is in sock.accept(); no session holds it back
AcceptReady == apc = "accept" /\ lsock = "listening"

\* lines 147-148: bind and listen succeed
Bind ==
    /\ apc = "init"
    /\ apc' = "accept"
    /\ lsock' = "listening"
    /\ UNCHANGED <<codec, config, conn, sess>>

\* lines 150-152: bind raises OSError, sys.exit(1)
BindFail ==
    /\ apc = "init"
    /\ apc' = "exit"
    /\ UNCHANGED <<codec, config, conn, sess, lsock>>

\* a client connects to the listening socket and has its script to send
Connect(c) ==
    /\ lsock = "listening"
    /\ Unused # {} /\ c = CHOOSE u \in Unused : \A d \in Unused : u <= d
    /\ \E plan \in ServerPlans : conn' = [conn EXCEPT ![c] = Connected(plan)]
    /\ UNCHANGED <<codec, config, sess, apc, lsock>>

\* line 154: accept() returns the oldest connection of the backlog
AcceptConn(c) ==
    /\ AcceptReady
    /\ Backlog # {} /\ c = Oldest
    /\ apc' = "start"
    /\ UNCHANGED <<codec, config, conn, sess, lsock>>

\* line 154 raises (OSError), lines 158-161: the error is logged, the loop is
\* left and the listening socket closed
AcceptFail ==
    /\ AcceptReady
    /\ apc' = "failed"
    /\ lsock' = "closed"
    /\ UNCHANGED <<codec, config, conn, sess>>

\* line 155: ClientThread(conn, addr, self.config).start() returns at once and
\* the loop goes back to accept()
StartSession(c) ==
    /\ apc = "start"
    /\ Backlog # {} /\ c = Oldest
    /\ sess' = [sess EXCEPT ![c] = ClientThread(c)]
    /\ apc' = "accept"
    /\ UNCHANGED <<codec, config, conn, lsock>>

\* line 155 raises (RuntimeError: can't start new thread), lines 158-161
StartFail ==
    /\ apc = "start"
    /\ apc' = "failed"
    /\ lsock' = "closed"
    /\ UNCHANGED <<codec, config, conn, sess>>

\* lines 156-157 and 160-161: KeyboardInterrupt in the loop
Interrupt ==
    /\ apc \in {"accept", "start"}
    /\ apc' = "stopped"
    /\ lsock' = "closed"
    /\ UNCHANGED <<codec, config, conn, sess>>

AcceptorStep ==
    \/ Bind
    \/ BindFail
    \/ \E c \in SessionIds : AcceptConn(c)
    \/ AcceptFail
    \/ \E c \in SessionIds : StartSession(c)
    \/ StartFail
    \/ Interrupt

(***************************************************************************)
(* ServerSpec: the server from its construction on, with up to MaxSessions *)
(* clients                                                                 *)
(***************************************************************************)
ServerInit ==
    /\ codec = CodecIdle
    /\ config = IconConfig
    /\ conn = [c \in SessionIds |-> NoConn]
    /\ sess = [c \in SessionIds |-> NoSess]
    /\ apc = "init"
    /\ lsock = "created"

ServerNext ==
    \/ AcceptorStep
    \/ \E c \in SessionIds : Connect(c)
    \/ \E c \in SessionIds : SessionStep(c)
    \/ \E c \in SessionIds : ClientStep(c)

ServerSpec == ServerInit /\ [][ServerNext]_vars

(***************************************************************************)
(* Properties of the codecs, under CodecSpec                               *)
(***************************************************************************)
CodecFinished == codec.stage \in {"return", "raise"}

\* C6: VarInt round trip.  For a value v of [0, 2^32), read_varint on the
\* bytes write_varint(v) followed by any other bytes returns v, does not
\* raise, and leaves exactly the other bytes unread.
C6_VarintRoundTrip ==
    (codec.value # NoNum /\ CodecFinished) =>
        /\ Fits32(codec.value)
        /\ codec.stage = "return"
        /\ codec.result = codec.value
        /\ codec.src = codec.tail
        /\ codec.num_read = Len(write_varint(codec.value))

\* 2^32 - 1 has come back from its 5 bytes, with bytes after them left unread
C6_Witness ==
    /\ codec.stage = "return"
    /\ codec.value = [hi |-> 2047, lo |-> Limb - 1]
    /\ codec.result = codec.value
    /\ codec.num_read = 5
    /\ codec.tail = <<128, 1>>
    /\ codec.src = codec.tail

\* the source starts with 5 bytes that all have the continuation bit, and a 6th
FiveContinuations ==
    /\ Len(codec.given) >= 6
    /\ \A i \in 1 .. 5 : codec.given[i] >= 128

\* read_varint returned on a byte without the continuation bit (not at end of stream)
ReturnedOnTerminator ==
    /\ codec.stage = "return"
    /\ codec.num_read >= 1
    /\ codec.given[codec.num_read] < 128

\* C7: read_varint rejects every input of more than 5 bytes.  When the first 5
\* bytes all have the continuation bit set, read_varint raises "VarInt too big"
\* and returns no value, whatever the 6th byte is; and every value it returns
\* fits in 32 bits.
C7_RejectsOverFiveBytes ==
    /\ (codec.value = NoNum /\ FiveContinuations /\ CodecFinished) => codec.stage = "raise"
    /\ (codec.value = NoNum /\ ReturnedOnTerminator) => Fits32(codec.result)

(***************************************************************************)
(* Properties of a session, under Spec                                     *)
(***************************************************************************)
\* a frame as a receiver reads it: VarInt length, VarInt packet ID, payload
FrameBody(f) == read_varint(f).rest

FrameId(f) == read_varint(FrameBody(f)).result

FramePayload(f) == read_varint(FrameBody(f)).rest

\* the text of a payload that is VarInt(length) ++ UTF-8 bytes
PayloadText(f) == utf8_decode(read_varint(FramePayload(f)).rest).s

\* the packet IDs of the packets a session has sent, in order
OutIds(c) == [i \in 1 .. Len(conn[c].wire) |-> FrameId(conn[c].wire[i])]

\* the connection was reset: reads and writes on it may have failed
TransportFailed(c) == conn[c].cstate = "rst"

\* a VarInt at the head of src that ends on a byte without the continuation bit
TermVarint(src) ==
    LET r == read_varint(src)
        used == Len(src) - Len(r.rest)
    IN  [ok |-> r.st = "return" /\ used >= 1 /\ src[used] < 128,
         v |-> r.result, rest |-> r.rest]

\* the client's bytes as a handshake packet: [ok, pid, ns, rest], rest being
\* what follows next_state
ParseHandshake(src) ==
    LET len  == TermVarint(src)
        pid  == TermVarint(len.rest)
        pv   == TermVarint(pid.rest)
        alen == TermVarint(pv.rest)
        n    == IF alen.v.hi = 0 THEN alen.v.lo ELSE Len(src) + 1
        port == SubSeq(alen.rest, n + 1, Len(alen.rest))
        ns   == TermVarint(SubSeq(port, 3, Len(port)))
    IN  [ok |-> len.ok /\ pid.ok /\ pv.ok /\ alen.ok /\ Len(alen.rest) >= n + 2
                /\ utf8_decode(SubSeq(alen.rest, 1, n)).ok /\ ns.ok,
         pid |-> pid.v, ns |-> ns.v, rest |-> ns.rest]

\* the client sent a whole handshake with packet ID 0 and this next_state, and
\* the session decoded the same
HandshakeRead(c, ns) ==
    LET hs == ParseHandshake(conn[c].script)
    IN  /\ hs.ok /\ hs.pid = Zero /\ hs.ns = ns
        /\ sess[c].packet_id = Zero
        /\ sess[c].next_state = ns

\* the client has sent everything, at least 8 bytes of it after next_state
PingSupplied(c) ==
    /\ Len(ParseHandshake(conn[c].script).rest) >= 8
    /\ conn[c].sent = Len(conn[c].script)

\* C1: a session whose handshake has packet ID 0 and next_state 1, and whose
\* client then supplies the 8 ping bytes, sends exactly two packets, ID 0 and
\* then ID 1, and closes the connection; nothing is sent after that.
C1_StatusThenPing ==
    \A c \in SessionIds :
        (HandshakeRead(c, Num(1)) /\ PingSupplied(c) /\ ~TransportFailed(c)
         /\ sess[c].pc = "done")
        => (OutIds(c) = <<Zero, Num(1)>> /\ conn[c].closed = 1)

KickText == json_dumps(PyDict(<<Item(<<116, 101, 120, 116>>, config.kick_message)>>))

\* C2: a session whose handshake has packet ID 0 and next_state 2 sends exactly
\* one packet, ID 0 carrying the kick JSON of the configured kick message, and
\* then closes the connection, whatever the kick message (a write that fails on
\* a reset connection aside).
C2_KickThenClose ==
    \A c \in SessionIds :
        (sess[c].packet_id = Zero /\ sess[c].next_state = Num(2)) =>
            /\ Len(conn[c].wire) <= 1
            /\ (sess[c].pc = "done" /\ ~TransportFailed(c)) =>
                   /\ Len(conn[c].wire) = 1
                   /\ FrameId(conn[c].wire[1]) = Zero
                   /\ PayloadText(conn[c].wire[1]) = KickText
                   /\ conn[c].closed = 1

\* the empty kick message: the kick went out, then the log line raised
C2_Witness ==
    \E c \in SessionIds :
        /\ HandshakeRead(c, Num(2))
        /\ config.kick_message = PyStr(<< >>)
        /\ sess[c].pc = "done" /\ sess[c].err = "IndexError"
        /\ Len(conn[c].wire) = 1 /\ conn[c].closed = 1

\* C3: a session whose handshake has packet ID 0 and a next_state other than 1
\* and 2 sends no packet, and its run ends with the connection closed.
C3_OtherStateNoReply ==
    \A c \in SessionIds :
        (sess[c].packet_id = Zero /\ sess[c].next_state \notin {NoNum, Num(1), Num(2)}) =>
            /\ conn[c].wire = << >>
            /\ sess[c].pc \in {"rd_user_len", "rd_user", "finally", "done"}
            /\ sess[c].pc = "done" => conn[c].closed = 1

C3_Witness ==
    \E c \in SessionIds :
        /\ HandshakeRead(c, Num(3))
        /\ sess[c].pc = "done" /\ sess[c].err = ""
        /\ conn[c].wire = << >> /\ conn[c].closed = 1

\* how many bytes the session has received (no byte is lost without a reset)
Received(c) == conn[c].sent - Len(conn[c].inbuf)

\* the bytes of the two header VarInts, length and packet ID, in what was sent
HeaderBytes(c) ==
    LET src == SubSeq(conn[c].script, 1, conn[c].sent)
    IN  Len(src) - Len(read_varint(read_varint(src).rest).rest)

\* C4: a session whose first packet has a packet ID other than 0 reads no
\* handshake field (it receives nothing after the packet ID), sends no packet,
\* and goes straight to closing the connection.
C4_OtherPacketIgnored ==
    \A c \in SessionIds :
        (sess[c].packet_id \notin {NoNum, Zero}) =>
            /\ sess[c].pc \in {"finally", "done"}
            /\ sess[c].protocol_version = NoNum /\ sess[c].utf_length = NoNum
            /\ sess[c].server_address = NoStr /\ sess[c].server_port = -1
            /\ sess[c].next_state = NoNum /\ sess[c].username_length = NoNum
            /\ sess[c].username = NoStr
            /\ ~TransportFailed(c) => Received(c) = HeaderBytes(c)
            /\ conn[c].wire = << >>
            /\ sess[c].err = ""
            /\ sess[c].pc = "done" => conn[c].closed = 1

\* packet ID 1 was read, the rest of the packet has arrived and stays unread
C4_Witness ==
    \E c \in SessionIds :
        /\ sess[c].packet_id = Num(1)
        /\ sess[c].pc = "done" /\ conn[c].closed = 1
        /\ conn[c].inbuf # << >> /\ conn[c].sent = Len(conn[c].script)
        /\ conn[c].wire = << >>

\* C5: on every exit path of run, conn.close() is called exactly once: never
\* twice, never not at all, and nothing is read or written after it.
C5_ClosedExactlyOnce ==
    \A c \in SessionIds :
        /\ conn[c].closed <= 1
        /\ sess[c].pc = "done" => conn[c].closed = 1
        /\ conn[c].closed >= 1 => (sess[c].pc = "done" /\ ~ENABLED SessionStep(c))

\* an exit on a decode error: the port field came short
C5_Witness ==
    \E c \in SessionIds :
        /\ sess[c].pc = "done" /\ sess[c].err = "struct.error"
        /\ conn[c].closed = 1

\* the session has sent a packet
Replied(c) == conn[c].wire # << >>

\* the client has sent all it means to send and keeps the connection open
ClientWaits(c) == conn[c].cstate = "open" /\ conn[c].sent = Len(conn[c].script)

\* C8: a malformed or absent username does not prevent the reply.  After a
\* handshake with packet ID 0 and next_state 1 or 2, with a client that sends
\* nothing more and keeps the connection open, the session does not stop
\* (finished, or waiting for bytes) before it has sent the status or kick reply.
C8_ReplyDespiteUsername ==
    \A c \in SessionIds :
        (/\ HandshakeRead(c, Num(1)) \/ HandshakeRead(c, Num(2))
         /\ ClientWaits(c)
         /\ ~ENABLED SessionStep(c))
        => Replied(c)

(***************************************************************************)
(* Properties of the server, under ServerSpec                              *)
(***************************************************************************)
\* the session is in one of the recv calls of run: lines 46, 102, 103, 107, 124
ReadSites == VarintSites \cup {"rd_addr", "rd_port", "rd_user", "rd_ping"}

ReadStep(c) ==
    ReadVarint(c) \/ ReadAddress(c) \/ ReadPort(c) \/ ReadUsername(c) \/ ReadPing(c)

\* the session waits in recv for bytes of its own client
Stalled(c) ==
    /\ sess[c].pc \in ReadSites
    /\ conn[c].inbuf = << >> /\ conn[c].cstate = "open"
    /\ ~ENABLED ReadStep(c)

\* the session is in recv and its client has left it something to act on
Runnable(c) ==
    /\ sess[c].pc \in ReadSites
    /\ conn[c].inbuf # << >> \/ conn[c].cstate # "open"

\* C9: while the accept loop runs, the acceptor waits for no session: back in
\* accept() it takes the oldest connection of the backlog, and after accept() it
\* starts the session, whatever the other sessions do (stalled on a read or
\* not); and a session in recv that has bytes, an end of stream or a reset to
\* act on can take its step whatever the other sessions do.
C9_AcceptorNeverWaits ==
    /\ (apc = "accept" /\ lsock = "listening" /\ Backlog # {}) => ENABLED AcceptConn(Oldest)
    /\ apc = "start" => (Backlog # {} /\ ENABLED StartSession(Oldest))
    /\ \A c \in SessionIds : Runnable(c) => ENABLED ReadStep(c)

\* an earlier session is stalled on a read; a later connection was accepted, got
\* its reply and was closed; the acceptor is back in accept()
C9_Witness ==
    \E c, d \in SessionIds :
        /\ c < d
        /\ apc = "accept" /\ lsock = "listening"
        /\ sess[d].pc = "done" /\ sess[d].err = ""
        /\ Len(conn[d].wire) >= 1 /\ conn[d].closed = 1
        /\ Stalled(c)

\* C10: every step of a session, the steps that raise and catch an exception
\* (decode failure, I/O failure) and the return on an unexpected packet ID
\* included, leaves the acceptor where it is, the listening socket as it is and
\* every other session and connection unchanged; an exception caught by line
\* 132 takes the session to its finally clause, and the session that ends has
\* closed its own connection.
C10_SessionFailureIsolated ==
    [][\A c \in SessionIds :
          SessionStep(c) =>
              /\ apc' = apc /\ lsock' = lsock
              /\ \A d \in SessionIds \ {c} : sess'[d] = sess[d] /\ conn'[d] = conn[d]
              /\ sess'[c].err # "" => sess'[c].pc \in {"finally", "done"}
              /\ sess'[c].pc = "done" => conn'[c].closed = 1]_vars

\* one session ended on a decode failure; the acceptor went on and another
\* session, started after it, sent its reply and ended without an error
C10_Witness ==
    \E c, d \in SessionIds :
        /\ c < d
        /\ sess[c].pc = "done" /\ sess[c].err = "VarIntTooBig" /\ conn[c].closed = 1
        /\ sess[d].pc = "done" /\ sess[d].err = ""
        /\ Len(conn[d].wire) >= 1 /\ conn[d].closed = 1
        /\ apc = "accept" /\ lsock = "listening"

\* C11: once the bind has succeeded the acceptor is in its loop, on the
\* listening socket, until a KeyboardInterrupt takes it out: nothing else ends
\* the loop or closes the listening socket.
C11_StopsOnlyOnInterrupt ==
    apc \notin {"init", "exit"} =>
        \/ apc \in {"accept", "start"} /\ lsock = "listening"
        \/ apc = "stopped" /\ lsock = "closed"

\* the status packet of a session: the first packet it sent on the status path
StatusSent(c) ==
    sess[c].packet_id = Zero /\ sess[c].next_state = Num(1) /\ Len(conn[c].wire) >= 1

\* the UTF-8 bytes of a payload that is VarInt(length) ++ UTF-8 bytes
PayloadUtf8(f) == read_varint(FramePayload(f)).rest

\* the status JSON as the configuration alone determines it, written out key by
\* key: {"version": {"name": V, "protocol": -1}, "players": {"max": M,
\* "online": O}, "description": {"text": D}, without and with the favicon key
StatusHead(cfg) ==
    <<123, 34, 118, 101, 114, 115, 105, 111, 110, 34, 58, 32, 123, 34, 110, 97, 109, 101, 34, 58, 32>>
    \o json_dumps(cfg.version_text)
    \o <<44, 32, 34, 112, 114, 111, 116, 111, 99, 111, 108, 34, 58, 32, 45, 49, 125, 44, 32, 34, 112, 108, 97, 121, 101, 114, 115, 34, 58, 32, 123, 34, 109, 97, 120, 34, 58, 32>>
    \o json_dumps(cfg.max_players)
    \o <<44, 32, 34, 111, 110, 108, 105, 110, 101, 34, 58, 32>>
    \o json_dumps(cfg.online_players)
    \o <<125, 44, 32, 34, 100, 101, 115, 99, 114, 105, 112, 116, 105, 111, 110, 34, 58, 32, 123, 34, 116, 101, 120, 116, 34, 58, 32>>
    \o json_dumps(cfg.motd) \o <<125>>

StatusTexts(cfg) ==
    {StatusHead(cfg) \o <<125>>,
     StatusHead(cfg) \o <<44, 32, 34, 102, 97, 118, 105, 99, 111, 110, 34, 58, 32, 34, 100, 97, 116, 97, 58, 105, 109, 97, 103, 101, 47, 112, 110, 103, 59, 98, 97, 115, 101, 54, 52, 44>>
        \o b64encode(IconBytes) \o <<34, 125>>}

\* C12: every status reply carries the JSON that the configuration alone
\* determines, with version.protocol -1, whatever protocol_version,
\* server_address, server_port and username the client sent.
C12_StatusFromConfigOnly ==
    \A c \in SessionIds :
        StatusSent(c) =>
            \E text \in StatusTexts(config) :
                PayloadUtf8(conn[c].wire[1]) = utf8_encode(text)

\* a status reply to a client that declared protocol 2047 * 2^21 + 5, address
\* "\xe9€", port 80 and a username
C12_Witness ==
    \E c \in SessionIds :
        /\ StatusSent(c)
        /\ sess[c].protocol_version = [hi |-> 2047, lo |-> 5]
        /\ sess[c].server_address = <<233, 8364>> /\ sess[c].server_port = 80
        /\ sess[c].username \notin {NoStr, Unknown}

\* the string the client wrote with write_utf as the first string of its packet
\* (after the length, the packet ID and the protocol version): [ok, s]
StringWritten(src) ==
    LET alen == TermVarint(TermVarint(TermVarint(TermVarint(src).rest).rest).rest)
        n    == IF alen.v.hi = 0 THEN alen.v.lo ELSE Len(src) + 1
        dec  == utf8_decode(SubSeq(alen.rest, 1, n))
    IN  [ok |-> alen.ok /\ Len(alen.rest) >= n /\ dec.ok, s |-> dec.s]

\* the call of read_utf at line 101 has ended, by a return or by an exception
ReadUtfEnded(c) ==
    sess[c].utf_length # NoNum /\ sess[c].pc # "rd_addr"

\* C13: read_utf on the bytes of write_utf(s) returns s, however the transport
\* delivers the bytes while the connection stays up: once read_utf has ended
\* on a client that wrote write_utf(s) and still holds the connection open,
\* the string it returned is s.
C13_UtfRoundTrip ==
    \A c \in SessionIds :
        (/\ StringWritten(conn[c].script).ok
         /\ conn[c].cstate = "open"
         /\ sess[c].packet_id = Zero
         /\ ReadUtfEnded(c))
        => sess[c].server_address = StringWritten(conn[c].script).s

\* C14: end of stream in read_varint is a truncated read and not a value:
\* read_varint returns only after it has read a byte without the continuation
\* bit, never because the source ran out (before any byte, or after
\* continuation bytes).
C14_EofIsNotAValue ==
    codec.stage = "return" => ReturnedOnTerminator

\* C15: read_utf never returns a string built from fewer bytes than the VarInt
\* length declared: the string read_utf returned at line 101 has exactly
\* utf_length bytes of UTF-8.
C15_UtfNeverShort ==
    \A c \in SessionIds :
        sess[c].server_address # NoStr =>
            Num(Len(utf8_encode(sess[c].server_address))) = sess[c].utf_length

\* C16: when decoding the username failed (an over-long VarInt length, bytes
\* that are not UTF-8) the failure is swallowed at lines 108-109 and the
\* display name of line 110 is the peer IP, as it is for an empty username.
C16_FallbackIsPeerAddress ==
    \A c \in SessionIds :
        (/\ sess[c].user_err \in {"VarIntTooBig", "UnicodeDecodeError"}
         /\ sess[c].username_display # NoStr) =>
            sess[c].username_display = sess[c].addr.ip

\* C17: the ping echo, the packet a session sends after its status packet,
\* carries 8 bytes of payload and they are the 8 bytes received at line 124:
\* no packet with ID 1 goes out with a shorter or an empty payload.
C17_PingEchoIsEightBytes ==
    \A c \in SessionIds :
        Len(conn[c].wire) >= 2 =>
            /\ FrameId(conn[c].wire[2]) = Num(1)
            /\ Len(FramePayload(conn[c].wire[2])) = 8
            /\ FramePayload(conn[c].wire[2]) = sess[c].ping_payload

\* C18: on the status path an icon that is not configured, does not exist or
\* cannot be read never aborts the session: a run on the status path that ends
\* on a connection that was not reset has sent the status packet, and did not
\* end on an exception of the icon read.
C18_IconFailureNotFatal ==
    \A c \in SessionIds :
        (/\ sess[c].packet_id = Zero /\ sess[c].next_state = Num(1)
         /\ sess[c].pc = "done" /\ ~TransportFailed(c))
        => (Len(conn[c].wire) >= 1 /\ sess[c].err # "OSError")

\* one write of a session as a frame: the length prefix is a terminated VarInt
\* equal to the count of the bytes after it, and they start with the
\* terminated VarInt of the packet ID
WellFramed(f) ==
    LET len == TermVarint(f)
        id  == TermVarint(len.rest)
    IN  /\ len.ok /\ len.v = Num(Len(len.rest))
        /\ id.ok /\ id.v \in {Zero, Num(1)}
        /\ f = write_varint(Num(Len(len.rest))) \o write_varint(id.v) \o id.rest

\* a payload that is VarInt(byte length) ++ the UTF-8 bytes of one of the texts
StringPayload(p, texts) ==
    LET slen == TermVarint(p)
    IN  /\ slen.ok /\ slen.v = Num(Len(slen.rest))
        /\ \E text \in texts : slen.rest = utf8_encode(text)

\* C19: every write of a session is one complete frame, VarInt(len(body)) ++
\* body with body = VarInt(packet_id) ++ payload, so that what the session has
\* written is at every point a concatenation of complete frames; and the
\* payload of a status or kick packet (ID 0) is VarInt(byte length) ++ UTF-8
\* bytes of the JSON text.
C19_OutboundFraming ==
    \A c \in SessionIds :
        \A i \in 1 .. Len(conn[c].wire) :
            /\ WellFramed(conn[c].wire[i])
            /\ FrameId(conn[c].wire[i]) = Zero =>
                   StringPayload(FramePayload(conn[c].wire[i]),
                                 StatusTexts(config) \cup {KickText})

\* a status packet with the favicon, whose length prefix takes 2 bytes, and the
\* echo of 8 ping bytes after it
C19_Witness ==
    \E c \in SessionIds :
        /\ Len(conn[c].wire) = 2
        /\ Len(conn[c].wire[1]) > 130
        /\ conn[c].wire[2] = <<9, 1>> \o Ping8

\* the bytes the client has put on the stream so far
Stream(c) == SubSeq(conn[c].script, 1, conn[c].sent)

\* C20: a session sends a packet only if the client's stream holds a complete
\* handshake: terminated VarInts for the length, packet ID 0, the protocol
\* version and the address length, the whole server_address, the 2 port bytes
\* and a terminated next_state VarInt equal to 1 or 2.  A stream that ends
\* before the terminating byte of next_state yields no packet.
C20_NoReplyWithoutHandshake ==
    \A c \in SessionIds :
        Replied(c) =>
            LET hs == ParseHandshake(Stream(c))
            IN  hs.ok /\ hs.pid = Zero /\ hs.ns \in {Num(1), Num(2)}

====
